---- MODULE Spec2Model ----
(***************************************************************************)
(* Model of the voluntary-exit fuzzing pipeline of ethdo,                  *)
(* cmd/validator/exitfuzz/process.go: one run of command.process.          *)
(*                                                                         *)
(* Go strings are modelled as token sequences (the empty string is <<>>),  *)
(* Go pointers as sequences of length at most one (nil is <<>>), byte      *)
(* arrays as sequences of numbers.  The BLS primitives, the hash tree root *)
(* and the key derivation are abstract but keep what the code relies on:   *)
(* a signature verifies only under the public key of the signing key and   *)
(* only for the signing root it was made for.                              *)
(***************************************************************************)
EXTENDS Integers, Sequences, FiniteSets, TLC

(***************************************************************************)
(* Bounds of the model.                                                    *)
(***************************************************************************)
\* Number of validators in the chain's registry (indices 0..NumValidators-1).
NumValidators == 2
\* The chain's current epoch ranges over 0..MaxEpoch.
MaxEpoch == 1

(***************************************************************************)
(* Program constants.                                                      *)
(***************************************************************************)
\* process.go:158  maxDistance := 1024
maxDistance == 1024
\* process.go:314  rand.Intn(100)
DrawRange == 100
\* process.go:329, 334  rand.Intn(1000000)
FuzzValueRange == 1000000
\* process.go:555  phase0.RootLength
RootLength == 32
\* process.go:583  phase0.ForkVersionLength
ForkVersionLength == 4
\* process.go:536  copy(c.domain[4:], root[:])
DomainTypeLength == 4

(***************************************************************************)
(* Byte arrays.                                                            *)
(***************************************************************************)
Bytes(n, b) == [k \in 1..n |-> b]
Take(s, n) == SubSeq(s, 1, n)

\* A hex string as given on the command line: an optional 0x prefix and a
\* body of two-character groups, each a byte value or -1 when the group is
\* not two hex digits.
HexString(prefix, body) == [prefix |-> prefix, body |-> body]
EmptyHex == HexString(FALSE, <<>>)
\* strings.TrimPrefix(s, "0x")
TrimPrefix0x(s) == s.body
\* hex.DecodeString: the bytes, or <<-1>> wrapped as an error.
HexDecodeOK(body) == \A k \in 1..Len(body) : body[k] >= 0

(***************************************************************************)
(* Keys, hashes and signatures (external primitives, abstract).            *)
(***************************************************************************)
\* Private keys are positive numbers; validator k's key is k.
PubOf(sk) == 1000 + sk
\* phase0.VoluntaryExit.HashTreeRoot: a 32-byte root, injective on messages.
HashTreeRoot(message) == <<message.Epoch, message.ValidatorIndex>>
\* 32 bytes that are the root of no message.
JunkRoot == <<-1, -1>>
\* ssz.HashTreeRoot(&phase0.SigningData{ObjectRoot, Domain})
SigningRoot(objectRoot, dom) == <<objectRoot, dom>>
\* A 96-byte signature: a curve point made by sk over a signing root, or
\* bytes that are no signature at all.
Signature(form, sk, sr) == [form |-> form, sk |-> sk, sr |-> sr]
ZeroDomain == Bytes(RootLength, 0)
ZeroSignature == Signature("zero", 0, SigningRoot(JunkRoot, ZeroDomain))
JunkSignature == Signature("junk", 0, SigningRoot(JunkRoot, ZeroDomain))
StraySignature == Signature("point", 0, SigningRoot(JunkRoot, ZeroDomain))
BLSSign(sk, sr) == Signature("point", sk, sr)
\* e2types.BLSSignatureFromBytes succeeds
BLSSignatureFromBytesOK(sig) == sig.form = "point"
\* sig.Verify(signingRoot, pubkey)
BLSVerify(sig, sr, pubkey) ==
    /\ sig.form = "point"
    /\ sig.sk > 0
    /\ PubOf(sig.sk) = pubkey
    /\ sig.sr = sr

(***************************************************************************)
(* Chain information (beacon.ChainInfo) and validator lookup.              *)
(***************************************************************************)
ValidatorInfo(index) == [Index |-> index, Pubkey |-> PubOf(index + 1)]
ChainForkVersion == <<0, 0, 0, 1>>
ChainGenesisValidatorsRoot == Bytes(RootLength, 7)
ChainDomainType == <<4, 0, 0, 0>>
ChainInfo(epoch) ==
    [Validators |-> {ValidatorInfo(k) : k \in 0..(NumValidators - 1)},
     Epoch |-> epoch,
     CurrentForkVersion |-> ChainForkVersion,
     GenesisValidatorsRoot |-> ChainGenesisValidatorsRoot,
     VoluntaryExitDomainType |-> ChainDomainType]
ChainInfos == {ChainInfo(e) : e \in 0..MaxEpoch}
NoChainInfo ==
    [Validators |-> {}, Epoch |-> 0, CurrentForkVersion |-> Bytes(ForkVersionLength, 0),
     GenesisValidatorsRoot |-> Bytes(RootLength, 0),
     VoluntaryExitDomainType |-> Bytes(DomainTypeLength, 0)]

\* Validator identifiers: <<"index", n>>, <<"pubkey", pk>> or <<"account", sk>>
\* (an account specifier, resolved to the account's public key).
ByIndex(n) == <<"index", n>>
ByPubkey(pk) == <<"pubkey", pk>>
ByAccount(sk) == <<"account", sk>>
\* chainInfo.FetchValidatorInfo: <<info>>, or <<>> for "not found".
FetchValidatorInfo(info, id) ==
    LET found == IF id[1] = "index"
                 THEN {v \in info.Validators : v.Index = id[2]}
                 ELSE IF id[1] = "pubkey"
                 THEN {v \in info.Validators : v.Pubkey = id[2]}
                 ELSE {v \in info.Validators : v.Pubkey = PubOf(id[2])}
    IN IF found = {} THEN <<>> ELSE <<CHOOSE v \in found : TRUE>>

(***************************************************************************)
(* Accounts and key derivation (util, go-eth2-util).                       *)
(***************************************************************************)
\* A seed derives key `key` at the indices `at` and keys of no registered
\* validator elsewhere; key = 0 stands for a mnemonic that is not valid.
Seed(key, at) == [key |-> key, at |-> at]
Seeds == {Seed(1, {0}), Seed(1, {maxDistance - 1}), Seed(1, {maxDistance}), Seed(1, {2, 5})}
BadMnemonic == <<Seed(0, {})>>
\* util.SeedFromMnemonic: <<seed>>, or <<>> on error.
SeedFromMnemonic(mnemonic) == IF mnemonic[1].key = 0 THEN <<>> ELSE <<mnemonic[1]>>

\* A path segment: its text and, when the text is decimal digits, its value.
Seg(n) == [text |-> ToString(n), num |-> n]
Word(w) == [text |-> w, num |-> -1]
\* fmt.Sprintf("m/12381/3600/%d/0/0", i)
ValidatorKeyPath(index) == <<Word("m"), Seg(12381), Seg(3600), Seg(index), Seg(0), Seg(0)>>
\* Mutant: the pattern takes anything between the slashes as the index.
validatorPathMatchAnyIndex(p) ==
    /\ Len(p) = 6
    /\ p[1].text = "m"
    /\ p[2].text = "12381"
    /\ p[3].text = "3600"
    /\ p[5].text = "0"
    /\ p[6].text = "0"
\* validatorPath.Match: ^m/12381/3600/[0-9]+/0/0$
validatorPathMatch(p) ==
    /\ Len(p) = 6
    /\ p[1].text = "m"
    /\ p[2].text = "12381"
    /\ p[3].text = "3600"
    /\ p[4].num >= 0
    /\ p[5].text = "0"
    /\ p[6].text = "0"
\* ethutil.PrivateKeyFromSeedAndPath for a validator path.
PrivateKeyFromSeedAndPath(seed, p) ==
    IF p[4].num \in seed.at THEN seed.key ELSE 5000 + p[4].num

\* An account able to sign: its private key.
Account(sk) == [sk |-> sk]
BestPublicKey(account) == PubOf(account.sk)
\* fmt.Sprintf("%#x", privkey.Marshal())
PrivateKeyHex(sk) == <<"0x", sk>>
BadPrivateKey == <<"zz">>
\* util.ParseAccount(ctx, specifier, nil, true): <<account>>, or <<>> on error.
\* A private key in hex and an account specifier give an account; a
\* validator index names no account.
ParseAccount(specifier) ==
    IF Len(specifier) = 2 /\ specifier[1] \in {"0x", "account"}
    THEN <<Account(specifier[2])>>
    ELSE <<>>
\* util.ParseAccount(ctx, mnemonic, []string{path}, true)
ParseAccountFromMnemonic(mnemonic, p) ==
    LET seed == SeedFromMnemonic(mnemonic)
    IN IF Len(seed) = 0 THEN <<>> ELSE <<Account(PrivateKeyFromSeedAndPath(seed[1], p))>>

(***************************************************************************)
(* Signing domain.                                                         *)
(***************************************************************************)
\* phase0.ForkData.HashTreeRoot: 32 bytes mixing both inputs.
ForkDataRoot(version, gvr) ==
    [k \in 1..RootLength |-> (version[((k - 1) % ForkVersionLength) + 1] + gvr[k] + k) % 256]
\* Mutant: the root is copied over the whole domain, the domain type lost.
ComputeDomainRootOnly(domainType, version, gvr) == ForkDataRoot(version, gvr)
\* copy(c.domain[:], domainType); copy(c.domain[4:], root)
ComputeDomain(domainType, version, gvr) ==
    domainType \o Take(ForkDataRoot(version, gvr), RootLength - DomainTypeLength)

(***************************************************************************)
(* JSON documents holding a signed voluntary exit.                         *)
(***************************************************************************)
VoluntaryExit(epoch, index) == [Epoch |-> epoch, ValidatorIndex |-> index]
\* *phase0.SignedVoluntaryExit; Message is a pointer.
SignedVoluntaryExit(message, sig) == [Message |-> message, Signature |-> sig]
\* The text of a document: whether it is JSON at all, whether it is the
\* JSON literal null, and otherwise the fields it has.
Doc(wellFormed, message, hasSignature, sig) ==
    [wellFormed |-> wellFormed, null |-> FALSE, message |-> message,
     hasSignature |-> hasSignature, signature |-> sig]
BadSyntaxDoc == Doc(FALSE, <<>>, FALSE, ZeroSignature)
\* A document cut off after its message: its text is not JSON.
TruncatedDoc == Doc(FALSE, <<VoluntaryExit(0, 0)>>, FALSE, ZeroSignature)
NullDoc == [Doc(TRUE, <<>>, FALSE, ZeroSignature) EXCEPT !.null = TRUE]
NoMessageDoc == Doc(TRUE, <<>>, TRUE, JunkSignature)
NoSignatureDoc == Doc(TRUE, <<VoluntaryExit(0, 0)>>, FALSE, ZeroSignature)
ChainDomain == ComputeDomain(ChainDomainType, ChainForkVersion, ChainGenesisValidatorsRoot)
DocMessages == {VoluntaryExit(0, 0), VoluntaryExit(0, NumValidators)}
DocSignatures ==
    {BLSSign(1, SigningRoot(HashTreeRoot(VoluntaryExit(0, 0)), ChainDomain)),
     BLSSign(1, SigningRoot(HashTreeRoot(VoluntaryExit(0, 0)), ZeroDomain)),
     JunkSignature}
GoodDoc ==
    Doc(TRUE, <<VoluntaryExit(0, 0)>>, TRUE,
        BLSSign(1, SigningRoot(HashTreeRoot(VoluntaryExit(0, 0)), ChainDomain)))
CompleteDocs == {Doc(TRUE, <<m>>, TRUE, sig) : m \in DocMessages, sig \in DocSignatures}
Docs == {BadSyntaxDoc, TruncatedDoc, NullDoc, NoMessageDoc, NoSignatureDoc} \cup CompleteDocs

\* The error of json.Unmarshal for text that is not JSON.
SyntaxError == <<"invalid character or unexpected end of JSON input">>

\* Mutant: the decoder fills the target as it reads and finds the syntax
\* error only when it gets there.
UnmarshalStreaming(doc, target) ==
    LET cause == IF doc.wellFormed THEN <<"signature missing">> ELSE SyntaxError
    IN IF Len(doc.message) = 0 THEN [err |-> SyntaxError, op |-> target]
       ELSE IF ~doc.hasSignature
       THEN [err |-> cause, op |-> <<SignedVoluntaryExit(doc.message, ZeroSignature)>>]
       ELSE [err |-> <<>>, op |-> <<SignedVoluntaryExit(doc.message, doc.signature)>>]

\* json.Unmarshal(data, &c.signedOperation): the error and what the target
\* holds afterwards.  The text is checked first, and text that is not JSON
\* leaves the target alone; the literal null sets the pointer to nil without
\* error; any other JSON makes the decoder allocate the operation and fill
\* the fields in order (message, then signature), stopping at the first that
\* is missing.
Unmarshal(doc, target) ==
    IF ~doc.wellFormed THEN [err |-> SyntaxError, op |-> target]
    ELSE IF doc.null THEN [err |-> <<>>, op |-> <<>>]
    ELSE IF Len(doc.message) = 0
    THEN [err |-> <<"message missing">>, op |-> <<SignedVoluntaryExit(<<>>, ZeroSignature)>>]
    ELSE IF ~doc.hasSignature
    THEN [err |-> <<"signature missing">>,
          op |-> <<SignedVoluntaryExit(doc.message, ZeroSignature)>>]
    ELSE [err |-> <<>>, op |-> <<SignedVoluntaryExit(doc.message, doc.signature)>>]

\* c.signedOperationInput: JSON text given inline (it starts with "{"), or
\* the name of a file to read.
InlineInput(doc) == <<[inline |-> TRUE, doc |-> doc]>>
FileNameInput == <<[inline |-> FALSE, doc |-> BadSyntaxDoc]>>

(***************************************************************************)
(* Inputs of a run.                                                        *)
(***************************************************************************)
InvalidPath == <<Word("m"), Seg(44), Seg(0)>>
NonDigitPath == <<Word("m"), Seg(12381), Seg(3600), Word("x"), Seg(0), Seg(0)>>
DefaultMnemonic == <<Seed(1, {0})>>
DefaultPath == ValidatorKeyPath(0)
DefaultValidator == ByAccount(1)
DefaultPrivateKey == PrivateKeyHex(1)
DefaultInput == InlineInput(GoodDoc)
MnemonicVariants == ({BadMnemonic} \cup {<<s>> : s \in Seeds}) \ {DefaultMnemonic}
PathVariants == {ValidatorKeyPath(5), InvalidPath, NonDigitPath}
ValidatorVariants == {ByIndex(0), ByIndex(NumValidators), ByAccount(NumValidators + 1)}
PrivateKeyVariants ==
    ({BadPrivateKey} \cup {PrivateKeyHex(k) : k \in 1..(NumValidators + 1)}) \ {DefaultPrivateKey}
InputVariants == ({FileNameInput} \cup {InlineInput(d) : d \in Docs}) \ {DefaultInput}
ForkVersionVariants ==
    {HexString(TRUE, <<0, 0, 0, 2>>), HexString(FALSE, <<0, 0, 0, 2>>),
     HexString(TRUE, <<0, -1, 0, 2>>), HexString(TRUE, <<0, 0, 2>>)}
GenesisValidatorsRootVariants ==
    {HexString(TRUE, Bytes(RootLength, 9)), HexString(TRUE, Bytes(RootLength - 1, 9)),
     HexString(FALSE, <<-1>>)}
Fuzzinesses == {0, DrawRange \div 2, DrawRange}

\* The values a field takes: absent, its default, or one of its variants.
Choices(default, variants) == {<<>>, default} \cup variants
IsVariant(value, variants) == IF value \in variants THEN 1 ELSE 0

(***************************************************************************)
(* State.                                                                  *)
(***************************************************************************)
VARIABLES
    c,              \* the command: flags, inputs and the fields process sets
    fuzziness,      \* viper "fuzziness"
    pc,             \* the statement of process (or of a callee) to run next
    err,            \* the error process returned, <<>> for nil
    branch,         \* the case obtainOperation took
    i,              \* loop index of the key scan
    validatorInfo,  \* validator of the operation being built
    account,        \* account of the operation being built
    operation,      \* createSignedOperation: the message under construction
    root,           \* createSignedOperation: root
    signature,      \* createSignedOperation: signature
    cp,             \* createSignedOperation: the fuzz checkpoint reached
    lastFuzz,       \* the last mutation decision: draw and outcome
    connects,       \* calls of util.ConnectToBeaconNode
    submitted,      \* operations handed to SubmitVoluntaryExit
    verifyLog,      \* calls of verifySignedOperation: operation and result
    derivations,    \* keys derived by the key scan
    seedings,       \* calls of rand.Seed
    written         \* whether the offline-preparation file was written

locals == <<i, validatorInfo, account, operation, root, signature, cp>>
observed == <<lastFuzz, connects, submitted, verifyLog, derivations, seedings, written>>
vars == <<c, fuzziness, pc, err, branch, locals, observed>>

NoFuzz == [cp |-> "", field |-> "", draw |-> -1, replaced |-> FALSE]

\* The command as process finds it: flags and inputs set, nothing obtained.
Command(flags, mnemonic, path, validator, privateKey, input, version, gvr) ==
    [offline |-> flags[1], json |-> flags[2], prepareOffline |-> flags[3],
     mnemonic |-> mnemonic, path |-> path, validator |-> validator,
     privateKey |-> privateKey, signedOperationInput |-> input,
     forkVersion |-> version, genesisValidatorsRoot |-> gvr,
     consensusClient |-> FALSE, chainInfo |-> NoChainInfo,
     domain |-> ZeroDomain, signedOperation |-> <<>>]

\* A run starts with any flags and any presence pattern of the inputs; at
\* most one input or setting departs from its default value, the fork
\* version and the genesis validators root counting as one setting.
Init ==
    /\ \E offline \in BOOLEAN, json \in BOOLEAN, prepareOffline \in BOOLEAN,
          mnemonic \in Choices(DefaultMnemonic, MnemonicVariants),
          path \in Choices(DefaultPath, PathVariants),
          validator \in Choices(DefaultValidator, ValidatorVariants),
          privateKey \in Choices(DefaultPrivateKey, PrivateKeyVariants),
          input \in Choices(DefaultInput, InputVariants),
          fv \in {EmptyHex} \cup ForkVersionVariants,
          gvr \in {EmptyHex} \cup GenesisValidatorsRootVariants,
          fuzz \in Fuzzinesses :
        /\ IsVariant(mnemonic, MnemonicVariants) + IsVariant(path, PathVariants)
             + IsVariant(validator, ValidatorVariants)
             + IsVariant(privateKey, PrivateKeyVariants)
             + IsVariant(input, InputVariants)
             + IsVariant(fv, ForkVersionVariants) * (1 - IsVariant(gvr, GenesisValidatorsRootVariants))
             + IsVariant(gvr, GenesisValidatorsRootVariants)
             + IsVariant(fuzz, Fuzzinesses \ {0}) <= 1
        /\ c = Command(<<offline, json, prepareOffline>>, mnemonic, path, validator,
                       privateKey, input, fv, gvr)
        /\ fuzziness = fuzz
    /\ pc = "setup"
    /\ err = <<>>
    /\ branch = ""
    /\ i = 0
    /\ validatorInfo = <<>>
    /\ account = <<>>
    /\ operation = <<>>
    /\ root = JunkRoot
    /\ signature = ZeroSignature
    /\ cp = ""
    /\ lastFuzz = NoFuzz
    /\ connects = 0
    /\ submitted = <<>>
    /\ verifyLog = <<>>
    /\ derivations = 0
    /\ seedings = 0
    /\ written = FALSE

\* process returns e.
Return(e) == pc' = "done" /\ err' = e

(***************************************************************************)
(* setup                                                                   *)
(***************************************************************************)
Setup ==
    /\ pc = "setup"
    /\ IF c.offline
       THEN /\ pc' = "obtainChainInfo"
            /\ UNCHANGED <<c, err, connects>>
       ELSE \E outcome \in {"connected", "no connection", "no chaintime"} :
            /\ connects' = connects + 1
            /\ c' = [c EXCEPT !.consensusClient = (outcome # "no connection")]
            /\ IF outcome = "connected"
               THEN pc' = "obtainChainInfo" /\ err' = err
               ELSE IF outcome = "no connection"
               THEN Return(<<"failed to connect to consensus node">>)
               ELSE Return(<<"failed to create chaintime service">>)
    /\ UNCHANGED <<fuzziness, branch, locals, lastFuzz, submitted, verifyLog,
                   derivations, seedings, written>>

(***************************************************************************)
(* obtainChainInfo, writeChainInfoToFile                                   *)
(***************************************************************************)
\* obtainChainInfo loads the chain information (from the node, or from the
\* offline-preparation file), or fails; process then branches on
\* c.prepareOffline.
\* Mutant: process goes on to generate the domain whatever c.prepareOffline is.
AfterChainInfoIgnoringPreparation(cmd) == "generateDomain"
\* if c.prepareOffline { return c.writeChainInfoToFile(ctx) }
AfterChainInfo(cmd) == IF cmd.prepareOffline THEN "writeChainInfoToFile" ELSE "generateDomain"

ObtainChainInfo ==
    /\ pc = "obtainChainInfo"
    /\ \/ \E info \in ChainInfos :
            /\ c' = [c EXCEPT !.chainInfo = info]
            /\ pc' = AfterChainInfo(c)
            /\ err' = err
       \/ /\ Return(<<"failed to obtain chain information">>)
          /\ c' = c
    /\ UNCHANGED <<fuzziness, branch, locals, observed>>

WriteChainInfoToFile ==
    /\ pc = "writeChainInfoToFile"
    /\ \/ written' = TRUE /\ Return(<<>>)
       \/ written' = FALSE /\ Return(<<"failed to write offline preparation file">>)
    /\ UNCHANGED <<c, fuzziness, branch, locals, lastFuzz, connects, submitted,
                   verifyLog, derivations, seedings>>

(***************************************************************************)
(* generateDomain                                                          *)
(***************************************************************************)
Result(e, value) == [err |-> e, value |-> value]

\* Mutant: a supplied root that does not decode is replaced by the chain's.
obtainGenesisValidatorsRootFallingBack(cmd) ==
    IF cmd.genesisValidatorsRoot # EmptyHex
         /\ HexDecodeOK(TrimPrefix0x(cmd.genesisValidatorsRoot))
         /\ Len(TrimPrefix0x(cmd.genesisValidatorsRoot)) = RootLength
    THEN Result(<<>>, TrimPrefix0x(cmd.genesisValidatorsRoot))
    ELSE Result(<<>>, cmd.chainInfo.GenesisValidatorsRoot)

obtainGenesisValidatorsRoot(cmd) ==
    IF cmd.genesisValidatorsRoot # EmptyHex
    THEN LET body == TrimPrefix0x(cmd.genesisValidatorsRoot)
         IN IF ~HexDecodeOK(body)
            THEN Result(<<"invalid genesis validators root supplied">>, Bytes(RootLength, 0))
            ELSE IF Len(body) # RootLength
            THEN Result(<<"invalid length for genesis validators root">>, Bytes(RootLength, 0))
            ELSE Result(<<>>, body)
    ELSE Result(<<>>, cmd.chainInfo.GenesisValidatorsRoot)

\* Mutant: the chain's current fork version is used whatever was supplied.
obtainForkVersionFromChain(cmd) == Result(<<>>, cmd.chainInfo.CurrentForkVersion)

obtainForkVersion(cmd) ==
    IF cmd.forkVersion # EmptyHex
    THEN LET body == TrimPrefix0x(cmd.forkVersion)
         IN IF ~HexDecodeOK(body)
            THEN Result(<<"invalid fork version supplied">>, Bytes(ForkVersionLength, 0))
            ELSE IF Len(body) # ForkVersionLength
            THEN Result(<<"invalid length for fork version">>, Bytes(ForkVersionLength, 0))
            ELSE Result(<<>>, body)
    ELSE Result(<<>>, cmd.chainInfo.CurrentForkVersion)

\* generateDomain: the error, and the domain c holds afterwards.
generateDomain(cmd) ==
    LET gvr == obtainGenesisValidatorsRoot(cmd)
        version == obtainForkVersion(cmd)
    IN IF gvr.err # <<>> THEN Result(gvr.err, cmd.domain)
       ELSE IF version.err # <<>> THEN Result(version.err, cmd.domain)
       ELSE Result(<<>>, ComputeDomain(cmd.chainInfo.VoluntaryExitDomainType,
                                       version.value, gvr.value))

\* Mutant: process drops the error of generateDomain and carries on.
GenerateDomainIgnoringError ==
    /\ pc = "generateDomain"
    /\ c' = [c EXCEPT !.domain = generateDomain(c).value]
    /\ pc' = "obtainOperation"
    /\ UNCHANGED <<fuzziness, err, branch, locals, observed>>

GenerateDomain ==
    /\ pc = "generateDomain"
    /\ LET r == generateDomain(c)
       IN /\ c' = [c EXCEPT !.domain = r.value]
          /\ IF r.err # <<>>
             THEN Return(r.err)
             ELSE pc' = "obtainOperation" /\ err' = err
    /\ UNCHANGED <<fuzziness, branch, locals, observed>>

(***************************************************************************)
(* obtainOperation                                                         *)
(***************************************************************************)
\* Mutant: a private key is looked at before the mnemonic.
obtainOperationCasePrivateKeyFirst(cmd) ==
    IF (cmd.mnemonic = <<>> \/ cmd.path = <<>>) /\ cmd.privateKey = <<>> /\ cmd.validator = <<>>
    THEN "obtainOperationFromFileOrInput"
    ELSE IF cmd.privateKey # <<>> THEN "generateOperationFromPrivateKey"
    ELSE IF cmd.mnemonic # <<>>
    THEN IF cmd.path # <<>> THEN "generateOperationFromMnemonicAndPath"
         ELSE IF cmd.validator # <<>> THEN "generateOperationFromMnemonicAndValidator"
         ELSE "mnemonic must be supplied with either a path or validator"
    ELSE IF cmd.validator # <<>> THEN "generateOperationFromValidator"
    ELSE "unsupported combination of inputs"

\* Mutant: the file or input is used only when no key input at all is given.
obtainOperationCaseAllEmpty(cmd) ==
    IF cmd.mnemonic = <<>> /\ cmd.path = <<>> /\ cmd.privateKey = <<>> /\ cmd.validator = <<>>
    THEN "obtainOperationFromFileOrInput"
    ELSE IF cmd.mnemonic # <<>>
    THEN IF cmd.path # <<>> THEN "generateOperationFromMnemonicAndPath"
         ELSE IF cmd.validator # <<>> THEN "generateOperationFromMnemonicAndValidator"
         ELSE "mnemonic must be supplied with either a path or validator"
    ELSE IF cmd.privateKey # <<>> THEN "generateOperationFromPrivateKey"
    ELSE IF cmd.validator # <<>> THEN "generateOperationFromValidator"
    ELSE "unsupported combination of inputs"

\* The case obtainOperation takes, from the emptiness of the inputs.
obtainOperationCase(cmd) ==
    IF (cmd.mnemonic = <<>> \/ cmd.path = <<>>) /\ cmd.privateKey = <<>> /\ cmd.validator = <<>>
    THEN "obtainOperationFromFileOrInput"
    ELSE IF cmd.mnemonic # <<>>
    THEN IF cmd.path # <<>> THEN "generateOperationFromMnemonicAndPath"
         ELSE IF cmd.validator # <<>> THEN "generateOperationFromMnemonicAndValidator"
         ELSE "mnemonic must be supplied with either a path or validator"
    ELSE IF cmd.privateKey # <<>> THEN "generateOperationFromPrivateKey"
    ELSE IF cmd.validator # <<>> THEN "generateOperationFromValidator"
    ELSE "unsupported combination of inputs"

IsErrorCase(case) ==
    case \in {"mnemonic must be supplied with either a path or validator",
              "unsupported combination of inputs"}

ObtainOperation ==
    /\ pc = "obtainOperation"
    /\ LET case == obtainOperationCase(c)
       IN /\ branch' = case
          /\ IF IsErrorCase(case)
             THEN Return(<<case>>)
             ELSE /\ err' = err
                  /\ pc' = IF case # "obtainOperationFromFileOrInput" THEN case
                           ELSE IF c.signedOperationInput # <<>>
                           THEN "obtainOperationFromInput"
                           ELSE "obtainOperationFromFile"
    /\ UNCHANGED <<c, fuzziness, locals, observed>>

\* The error obtainOperation returns for an error e of the case it took.
WrapObtain(cmd, case, e) ==
    IF e = <<>> THEN e
    ELSE IF case = "obtainOperationFromFileOrInput"
    THEN IF cmd.signedOperationInput # <<>>
         THEN <<"failed to obtain supplied signed operation">> \o e
         ELSE <<"no account, mnemonic or private key specified, and no exit-operation.json file loaded">> \o e
    ELSE IF case = "generateOperationFromMnemonicAndPath"
    THEN <<"failed to generate operation from seed and path">> \o e
    ELSE e

(***************************************************************************)
(* verifySignedOperation                                                   *)
(***************************************************************************)
\* What a nil pointer dereference does: the run time panics and the program
\* ends there, no error being returned to anyone.
NilDereference == <<"panic: runtime error: invalid memory address or nil pointer dereference">>

\* The error verifySignedOperation returns for the operation op points to,
\* <<>> for nil; op.Message.HashTreeRoot() dereferences op and op.Message.
verifySignedOperation(cmd, op) ==
    LET messageRoot == HashTreeRoot(op[1].Message[1])
        signingRoot == SigningRoot(messageRoot, cmd.domain)
        info == FetchValidatorInfo(cmd.chainInfo, ByIndex(op[1].Message[1].ValidatorIndex))
    IN IF Len(op) = 0 \/ Len(op[1].Message) = 0 THEN NilDereference
       ELSE IF ~BLSSignatureFromBytesOK(op[1].Signature) THEN <<"invalid signature">>
       ELSE IF Len(info) = 0 THEN <<"unknown validator">>
       ELSE IF ~BLSVerify(op[1].Signature, signingRoot, info[1].Pubkey)
       THEN <<"signature does not verify">>
       ELSE <<>>

\* Mutant: the result of verifySignedOperation is dropped.
LoadIgnoringVerification(doc, parseError, input) ==
    LET u == Unmarshal(doc, c.signedOperation)
        loaded == [c EXCEPT !.signedOperation = u.op, !.signedOperationInput = input]
    IN /\ c' = loaded
       /\ IF u.err # <<>>
          THEN /\ Return(<<parseError>> \o u.err)
               /\ verifyLog' = verifyLog
          ELSE /\ verifyLog' = Append(verifyLog, [op |-> u.op,
                                                  err |-> verifySignedOperation(loaded, u.op)])
               /\ pc' = "validateOperation"
               /\ err' = err

\* json.Unmarshal into c.signedOperation followed by verifySignedOperation,
\* the common tail of obtainOperationFromFile and obtainOperationFromInput.
LoadAndVerify(doc, parseError, input) ==
    LET u == Unmarshal(doc, c.signedOperation)
        loaded == [c EXCEPT !.signedOperation = u.op, !.signedOperationInput = input]
    IN /\ c' = loaded
       /\ IF u.err # <<>>
          THEN /\ Return(WrapObtain(loaded, branch, <<parseError>> \o u.err))
               /\ verifyLog' = verifyLog
          ELSE LET e == verifySignedOperation(loaded, u.op)
               IN /\ verifyLog' = Append(verifyLog, [op |-> u.op, err |-> e])
                  /\ IF e = NilDereference
                     THEN Return(e)
                     ELSE IF e # <<>>
                     THEN Return(WrapObtain(loaded, branch, e))
                     ELSE pc' = "validateOperation" /\ err' = err

\* obtainOperationFromFile: exit-operation.json is absent, unreadable, or
\* holds some document.
ObtainOperationFromFile ==
    /\ pc = "obtainOperationFromFile"
    /\ \/ /\ Return(WrapObtain(c, branch, <<"failed to read exit operation file">>))
          /\ UNCHANGED <<c, verifyLog>>
       \/ \E doc \in Docs :
            LoadAndVerify(doc, "failed to parse exit operation file", c.signedOperationInput)
    /\ UNCHANGED <<fuzziness, branch, locals, lastFuzz, connects, submitted,
                   derivations, seedings, written>>

\* obtainOperationFromInput: input that does not start with "{" names a
\* file, whose text replaces c.signedOperationInput.
ObtainOperationFromInput ==
    /\ pc = "obtainOperationFromInput"
    /\ IF c.signedOperationInput[1].inline
       THEN LoadAndVerify(c.signedOperationInput[1].doc,
                          "failed to parse exit operation input", c.signedOperationInput)
       ELSE \/ /\ Return(WrapObtain(c, branch, <<"failed to read input file">>))
               /\ UNCHANGED <<c, verifyLog>>
            \/ \E doc \in Docs :
                 LoadAndVerify(doc, "failed to parse exit operation input", InlineInput(doc))
    /\ UNCHANGED <<fuzziness, branch, locals, lastFuzz, connects, submitted,
                   derivations, seedings, written>>

(***************************************************************************)
(* generateOperationFrom...                                                *)
(***************************************************************************)
\* generateOperationFromAccount is entered with this validator and account.
CallCreateSignedOperation(info, acct) ==
    /\ validatorInfo' = info
    /\ account' = acct
    /\ pc' = "createSignedOperation"
    /\ err' = err

\* generateOperationFromMnemonicAndPath, with generateOperationFromSeedAndPath
\* up to its call of generateOperationFromPrivateKey.
GenerateOperationFromMnemonicAndPath ==
    /\ pc = "generateOperationFromMnemonicAndPath"
    /\ LET seed == SeedFromMnemonic(c.mnemonic)
       IN IF Len(seed) = 0
          THEN Return(<<"mnemonic is invalid">>) /\ c' = c
          ELSE IF ~validatorPathMatch(c.path)
          THEN /\ Return(<<"path does not match EIP-2334 format for a validator">>)
               /\ c' = c
          ELSE /\ c' = [c EXCEPT !.privateKey =
                            PrivateKeyHex(PrivateKeyFromSeedAndPath(seed[1], c.path))]
               /\ pc' = "generateOperationFromPrivateKey"
               /\ err' = err
    /\ UNCHANGED <<fuzziness, branch, locals, observed>>

GenerateOperationFromPrivateKey ==
    /\ pc = "generateOperationFromPrivateKey"
    /\ LET validatorAccount == ParseAccount(c.privateKey)
       IN IF Len(validatorAccount) = 0
          THEN /\ Return(WrapObtain(c, branch, <<"failed to create validator account">>))
               /\ UNCHANGED <<validatorInfo, account>>
          ELSE LET info == FetchValidatorInfo(c.chainInfo,
                                ByPubkey(BestPublicKey(validatorAccount[1])))
               IN IF Len(info) = 0
                  THEN /\ Return(WrapObtain(c, branch, <<"unknown validator">>))
                       /\ UNCHANGED <<validatorInfo, account>>
                  ELSE CallCreateSignedOperation(info, validatorAccount)
    /\ UNCHANGED <<c, fuzziness, branch, i, operation, root, signature, cp, observed>>

GenerateOperationFromValidator ==
    /\ pc = "generateOperationFromValidator"
    /\ LET info == FetchValidatorInfo(c.chainInfo, c.validator)
           validatorAccount == ParseAccount(c.validator)
       IN IF Len(info) = 0
          THEN Return(<<"unknown validator">>) /\ UNCHANGED <<validatorInfo, account>>
          ELSE IF Len(validatorAccount) = 0
          THEN Return(<<"unknown account specifier">>) /\ UNCHANGED <<validatorInfo, account>>
          ELSE CallCreateSignedOperation(info, validatorAccount)
    /\ UNCHANGED <<c, fuzziness, branch, i, operation, root, signature, cp, observed>>

\* generateOperationFromMnemonicAndValidator up to the start of its loop.
GenerateOperationFromMnemonicAndValidator ==
    /\ pc = "generateOperationFromMnemonicAndValidator"
    /\ LET seed == SeedFromMnemonic(c.mnemonic)
           info == FetchValidatorInfo(c.chainInfo, c.validator)
       IN IF Len(seed) = 0
          THEN Return(<<"mnemonic is invalid">>) /\ UNCHANGED <<i, validatorInfo>>
          ELSE IF Len(info) = 0
          THEN Return(<<"unknown validator">>) /\ UNCHANGED <<i, validatorInfo>>
          ELSE /\ validatorInfo' = info
               /\ i' = 0
               /\ pc' = "scanKeys"
               /\ err' = err
    /\ UNCHANGED <<c, fuzziness, branch, account, operation, root, signature, cp, observed>>

\* One iteration of the scan, for i := 0; ; i++ { ... }, with the bound
\* at which it gives up.
ScanKeysTo(limit) ==
    /\ pc = "scanKeys"
    /\ IF i = limit
       THEN /\ pc' = "validateOperation"
            /\ UNCHANGED <<i, account, derivations>>
       ELSE LET validatorKeyPath == ValidatorKeyPath(i)
                validatorPrivkey ==
                    PrivateKeyFromSeedAndPath(SeedFromMnemonic(c.mnemonic)[1], validatorKeyPath)
            IN /\ derivations' = derivations + 1
               /\ IF PubOf(validatorPrivkey) = validatorInfo[1].Pubkey
                  THEN /\ account' = ParseAccountFromMnemonic(c.mnemonic, validatorKeyPath)
                       /\ pc' = "createSignedOperation"
                       /\ i' = i
                  ELSE /\ i' = i + 1
                       /\ pc' = pc
                       /\ account' = account
    /\ UNCHANGED <<c, fuzziness, err, branch, validatorInfo, operation, root, signature, cp,
                   lastFuzz, connects, submitted, verifyLog, seedings, written>>

\* Mutants: the scan gives up one index late, or one index early.
ScanKeysOffByOne == ScanKeysTo(maxDistance + 1)
ScanKeysStoppingEarly == ScanKeysTo(maxDistance - 1)

ScanKeys == ScanKeysTo(maxDistance)

(***************************************************************************)
(* Fuzzing and createSignedOperation                                       *)
(***************************************************************************)
\* rand.Intn(100): the extremes and the two values around the intensity.
Draws == {0, DrawRange - 1} \cup ({fuzziness - 1, fuzziness} \cap (0..(DrawRange - 1)))
\* Mutant: a draw equal to the intensity acts too.
FuzzinessActInclusive(draw) == fuzziness >= draw
\* FuzzinessAct, for the draw rand.Intn(100) returned.
FuzzinessAct(draw) == fuzziness > draw
\* rand.Intn(1000000) for a validator index: another validator's index, or
\* the index of no validator.
RandomIndices == {NumValidators - 1, FuzzValueRange - 1}
RandomEpochs == {FuzzValueRange - 1}
\* rand.Read into 32 and into 96 bytes.
RandomRoots == {JunkRoot}
RandomSignatures == {JunkSignature, StraySignature}

Decision(checkpoint, field, draw) ==
    [cp |-> checkpoint, field |-> field, draw |-> draw, replaced |-> FuzzinessAct(draw)]

\* Mutant: createSignedOperation does not call InitializeFuzzingSeed.
CreateSignedOperationUnseeded ==
    /\ pc = "createSignedOperation"
    /\ operation' = <<VoluntaryExit(c.chainInfo.Epoch, validatorInfo[1].Index)>>
    /\ cp' = "a"
    /\ pc' = "fuzzValidatorIndex"
    /\ UNCHANGED <<c, fuzziness, err, branch, i, validatorInfo, account, root, signature,
                   observed>>

\* createSignedOperation up to its first checkpoint: seed the random
\* source, build the message.
CreateSignedOperation ==
    /\ pc = "createSignedOperation"
    /\ seedings' = seedings + 1
    /\ operation' = <<VoluntaryExit(c.chainInfo.Epoch, validatorInfo[1].Index)>>
    /\ cp' = "a"
    /\ pc' = "fuzzValidatorIndex"
    /\ UNCHANGED <<c, fuzziness, err, branch, i, validatorInfo, account, root, signature,
                   lastFuzz, connects, submitted, verifyLog, derivations, written>>

\* fuzzExitMessage: fuzz validator index.
FuzzValidatorIndex ==
    /\ pc = "fuzzValidatorIndex"
    /\ \E draw \in Draws, random \in RandomIndices :
         /\ operation' = IF FuzzinessAct(draw)
                          THEN <<[operation[1] EXCEPT !.ValidatorIndex = random]>>
                          ELSE operation
         /\ lastFuzz' = Decision(cp, "ValidatorIndex", draw)
    /\ pc' = "fuzzEpoch"
    /\ UNCHANGED <<c, fuzziness, err, branch, i, validatorInfo, account, root, signature, cp,
                   connects, submitted, verifyLog, derivations, seedings, written>>

\* fuzzExitMessage: fuzz Epoch; then what the caller of fuzzExitMessage does.
FuzzEpoch ==
    /\ pc = "fuzzEpoch"
    /\ \E draw \in Draws, random \in RandomEpochs :
         /\ operation' = IF FuzzinessAct(draw)
                          THEN <<[operation[1] EXCEPT !.Epoch = random]>>
                          ELSE operation
         /\ lastFuzz' = Decision(cp, "Epoch", draw)
    /\ pc' = IF cp = "a" THEN "hashTreeRoot"
             ELSE IF cp = "b" THEN "fuzzRoot" ELSE "fuzzSignature"
    /\ UNCHANGED <<c, fuzziness, err, branch, i, validatorInfo, account, root, signature, cp,
                   connects, submitted, verifyLog, derivations, seedings, written>>

\* Mutant: the root is taken of the message as built, before checkpoint (a).
ComputeRootBeforeFuzz ==
    /\ pc = "hashTreeRoot"
    /\ root' = HashTreeRoot(VoluntaryExit(c.chainInfo.Epoch, validatorInfo[1].Index))
    /\ cp' = "b"
    /\ pc' = "fuzzValidatorIndex"
    /\ UNCHANGED <<c, fuzziness, err, branch, i, validatorInfo, account, operation, signature,
                   observed>>

\* root, err := operation.HashTreeRoot()
ComputeRoot ==
    /\ pc = "hashTreeRoot"
    /\ root' = HashTreeRoot(operation[1])
    /\ cp' = "b"
    /\ pc' = "fuzzValidatorIndex"
    /\ UNCHANGED <<c, fuzziness, err, branch, i, validatorInfo, account, operation, signature,
                   observed>>

\* fuzzExitMessageWithRoot: fuzz root.
FuzzRoot ==
    /\ pc = "fuzzRoot"
    /\ \E draw \in Draws, random \in RandomRoots :
         /\ root' = IF FuzzinessAct(draw) THEN random ELSE root
         /\ lastFuzz' = Decision(cp, "root", draw)
    /\ pc' = "signRoot"
    /\ UNCHANGED <<c, fuzziness, err, branch, i, validatorInfo, account, operation, signature,
                   cp, connects, submitted, verifyLog, derivations, seedings, written>>

\* signing.SignRoot: the account's signature over the signing root of the
\* given root and domain.
signingSignRoot(acct, objectRoot, dom) == BLSSign(acct.sk, SigningRoot(objectRoot, dom))

\* Mutant: the root is signed under an empty domain, not this run's.
SignRootWithoutDomain ==
    /\ pc = "signRoot"
    /\ \/ /\ signature' = signingSignRoot(account[1], root, ZeroDomain)
          /\ cp' = "c"
          /\ pc' = "fuzzValidatorIndex"
          /\ err' = err
       \/ /\ Return(<<"failed to sign exit operation">>)
          /\ UNCHANGED <<signature, cp>>
    /\ UNCHANGED <<c, fuzziness, branch, i, validatorInfo, account, operation, root, observed>>

\* signing.SignRoot(ctx, account, nil, root, c.domain): the account signs
\* the signing root of root and domain, or cannot sign.
SignRoot ==
    /\ pc = "signRoot"
    /\ \/ /\ signature' = signingSignRoot(account[1], root, c.domain)
          /\ cp' = "c"
          /\ pc' = "fuzzValidatorIndex"
          /\ err' = err
       \/ /\ Return(WrapObtain(c, branch, <<"failed to sign exit operation">>))
          /\ UNCHANGED <<signature, cp>>
    /\ UNCHANGED <<c, fuzziness, branch, i, validatorInfo, account, operation, root, observed>>

\* fuzzExitMessageWithSignature: fuzz signature.
FuzzSignature ==
    /\ pc = "fuzzSignature"
    /\ \E draw \in Draws, random \in RandomSignatures :
         /\ signature' = IF FuzzinessAct(draw) THEN random ELSE signature
         /\ lastFuzz' = Decision(cp, "signature", draw)
    /\ pc' = "returnOperation"
    /\ UNCHANGED <<c, fuzziness, err, branch, i, validatorInfo, account, operation, root, cp,
                   connects, submitted, verifyLog, derivations, seedings, written>>

\* createSignedOperation returns; generateOperationFromAccount stores the
\* operation in c.signedOperation, and obtainOperation returns nil.
ReturnOperation ==
    /\ pc = "returnOperation"
    /\ c' = [c EXCEPT !.signedOperation = <<SignedVoluntaryExit(operation, signature)>>]
    /\ pc' = "validateOperation"
    /\ UNCHANGED <<fuzziness, err, branch, locals, observed>>

(***************************************************************************)
(* validateOperation, output, broadcastOperation                           *)
(***************************************************************************)
\* Mutant: validation runs the verifier on the operation obtained.
validateOperationVerifying(cmd) ==
    IF Len(cmd.signedOperation) = 0 \/ Len(cmd.signedOperation[1].Message) = 0
    THEN [validated |-> FALSE, reason |-> "no operation"]
    ELSE LET e == verifySignedOperation(cmd, cmd.signedOperation)
         IN IF e = <<>> THEN [validated |-> TRUE, reason |-> ""]
            ELSE [validated |-> FALSE, reason |-> e[1]]

\* validateOperation: (true, "") whatever the command holds.
validateOperation(cmd) == [validated |-> TRUE, reason |-> ""]

ValidateOperation ==
    /\ pc = "validateOperation"
    /\ LET v == validateOperation(c)
       IN IF ~v.validated
          THEN Return(<<"operation failed validation", v.reason>>)
          ELSE pc' = "output" /\ err' = err
    /\ UNCHANGED <<c, fuzziness, branch, locals, observed>>

\* if c.json || c.offline { return nil }
NoBroadcast ==
    /\ pc = "output"
    /\ c.json \/ c.offline
    /\ Return(<<>>)
    /\ UNCHANGED <<c, fuzziness, branch, locals, observed>>

\* Mutant: only JSON output keeps the operation from being broadcast.
BroadcastUnlessJSON ==
    /\ pc = "output"
    /\ ~c.json
    /\ submitted' = Append(submitted, c.signedOperation)
    /\ \/ Return(<<>>)
       \/ Return(<<"failed to submit voluntary exit">>)
    /\ UNCHANGED <<c, fuzziness, branch, locals, lastFuzz, connects, verifyLog,
                   derivations, seedings, written>>

\* Mutant: only offline mode keeps the operation from being broadcast.
BroadcastUnlessOffline ==
    /\ pc = "output"
    /\ ~c.offline
    /\ submitted' = Append(submitted, c.signedOperation)
    /\ \/ Return(<<>>)
       \/ Return(<<"failed to submit voluntary exit">>)
    /\ UNCHANGED <<c, fuzziness, branch, locals, lastFuzz, connects, verifyLog,
                   derivations, seedings, written>>

\* broadcastOperation: SubmitVoluntaryExit(ctx, c.signedOperation), which the
\* node accepts or rejects.
BroadcastOperation ==
    /\ pc = "output"
    /\ ~(c.json \/ c.offline)
    /\ submitted' = Append(submitted, c.signedOperation)
    /\ \/ Return(<<>>)
       \/ Return(<<"failed to submit voluntary exit">>)
    /\ UNCHANGED <<c, fuzziness, branch, locals, lastFuzz, connects, verifyLog,
                   derivations, seedings, written>>

Next ==
    \/ Setup
    \/ ObtainChainInfo
    \/ WriteChainInfoToFile
    \/ GenerateDomain
    \/ ObtainOperation
    \/ ObtainOperationFromFile
    \/ ObtainOperationFromInput
    \/ GenerateOperationFromMnemonicAndPath
    \/ GenerateOperationFromPrivateKey
    \/ GenerateOperationFromValidator
    \/ GenerateOperationFromMnemonicAndValidator
    \/ ScanKeys
    \/ CreateSignedOperation
    \/ FuzzValidatorIndex
    \/ FuzzEpoch
    \/ ComputeRoot
    \/ FuzzRoot
    \/ SignRoot
    \/ FuzzSignature
    \/ ReturnOperation
    \/ ValidateOperation
    \/ NoBroadcast
    \/ BroadcastOperation

Spec == Init /\ [][Next]_vars

(***************************************************************************)
(* Properties.                                                             *)
(***************************************************************************)
Builders ==
    {"generateOperationFromMnemonicAndPath", "generateOperationFromMnemonicAndValidator",
     "generateOperationFromPrivateKey", "generateOperationFromValidator"}
Loaded == branch = "obtainOperationFromFileOrInput"
\* A signed operation with its message and a signature.
Complete(op) ==
    /\ Len(op) = 1
    /\ Len(op[1].Message) = 1
    /\ op[1].Signature # ZeroSignature

\* C1: in a run with offline mode set, setup never connects to the beacon
\* node and SubmitVoluntaryExit is never invoked, whatever the inputs and
\* the other flags.
C1_OfflineNeverConnectsNorSubmits ==
    c.offline => connects = 0 /\ ~c.consensusClient /\ Len(submitted) = 0
\* An offline run without JSON output that came through validation with an
\* operation and ended.
C1_Witness ==
    /\ c.offline /\ ~c.json
    /\ pc = "done" /\ err = <<>>
    /\ Complete(c.signedOperation)

\* C2: every operation handed to SubmitVoluntaryExit is the run's signed
\* operation, complete with message and signature.
C2_SubmittedOperationComplete ==
    \A k \in 1..Len(submitted) : Complete(submitted[k]) /\ submitted[k] = c.signedOperation

\* C3 (as claimed): an obtained operation the verifier would reject does not
\* get past validation to JSON output or broadcast.
C3_RejectedOperationStopsAtValidation ==
    (pc = "output" /\ Complete(c.signedOperation))
        => verifySignedOperation(c, c.signedOperation) = <<>>
\* C3 (amended): validateOperation accepts whatever was obtained: every run
\* that reaches validation goes on to the output stage, without error.
C3_ValidationAcceptsEveryOperation ==
    [][pc = "validateOperation" => pc' = "output" /\ err' = <<>>]_vars
\* A built operation the verifier rejects was broadcast.
C3_Witness ==
    /\ branch \in Builders
    /\ Len(submitted) = 1
    /\ Complete(submitted[1])
    /\ verifySignedOperation(c, submitted[1]) # <<>>

\* C4: a run that loads the operation from the file or the supplied input
\* reaches validation, output or broadcast only after verifySignedOperation
\* succeeded on that operation; a run that builds the operation never calls
\* verifySignedOperation.
PastObtain == pc \in {"validateOperation", "output"} \/ (pc = "done" /\ err = <<>>)
                \/ Len(submitted) > 0
C4_LoadedOperationVerifiedFirst ==
    /\ (Loaded /\ PastObtain) =>
          /\ Len(verifyLog) = 1
          /\ verifyLog[1].err = <<>>
          /\ c.signedOperation = verifyLog[1].op
    /\ ~Loaded => verifyLog = <<>>
\* A loaded operation was verified and then broadcast.
C4_Witness ==
    /\ Loaded
    /\ Len(submitted) = 1
    /\ Len(verifyLog) = 1

\* The one source a combination of inputs names, "" when it names none or
\* several: mnemonic with path, mnemonic with validator, private key,
\* validator, or nothing at all (the file or the supplied input).
DesignatedSource(cmd) ==
    LET m == cmd.mnemonic # <<>>
        p == cmd.path # <<>>
        v == cmd.validator # <<>>
        k == cmd.privateKey # <<>>
    IN IF m /\ p /\ ~v /\ ~k THEN "generateOperationFromMnemonicAndPath"
       ELSE IF m /\ v /\ ~p /\ ~k THEN "generateOperationFromMnemonicAndValidator"
       ELSE IF k /\ ~m /\ ~p /\ ~v THEN "generateOperationFromPrivateKey"
       ELSE IF v /\ ~m /\ ~p /\ ~k THEN "generateOperationFromValidator"
       ELSE IF ~m /\ ~p /\ ~v /\ ~k THEN "obtainOperationFromFileOrInput"
       ELSE ""
\* C5: obtainOperation uses the single source the inputs designate, and
\* fails with an error, obtaining nothing, when they designate none
\* (conflicting or incomplete combinations).
C5_SingleSourceOrError ==
    [][pc = "obtainOperation" =>
          IF DesignatedSource(c) = ""
          THEN pc' = "done" /\ err' # <<>> /\ c'.signedOperation = <<>>
          ELSE branch' = DesignatedSource(c)]_vars

\* C6: an operation createSignedOperation returns at fuzz intensity 0 is
\* accepted by verifySignedOperation under the same domain, when the key
\* registered for the validator is the account's public key.
C6_UnfuzzedOperationVerifies ==
    (/\ branch \in Builders
     /\ fuzziness = 0
     /\ Len(c.signedOperation) = 1
     /\ FetchValidatorInfo(c.chainInfo, ByIndex(validatorInfo[1].Index))
            = <<[Index |-> validatorInfo[1].Index, Pubkey |-> BestPublicKey(account[1])]>>)
        => verifySignedOperation(c, c.signedOperation) = <<>>
\* An unfuzzed operation for the second validator in the last epoch.
C6_Witness ==
    /\ branch \in Builders
    /\ fuzziness = 0
    /\ Len(c.signedOperation) = 1
    /\ validatorInfo[1].Index = 1
    /\ c.signedOperation[1].Message[1].Epoch = MaxEpoch

\* C7: at each mutation decision point the field is replaced if and only if
\* the draw is less than the intensity, and nothing else changes: validator
\* index and epoch at every checkpoint, the root only at the second, the
\* signature only at the third.  So intensity 0 changes nothing and
\* intensity 100 replaces every eligible field.
FuzzStep(field) ==
    /\ lastFuzz'.cp = cp
    /\ lastFuzz'.field = field
    /\ lastFuzz'.draw \in 0..(DrawRange - 1)
    /\ lastFuzz'.replaced = (lastFuzz'.draw < fuzziness)
    /\ fuzziness = 0 => ~lastFuzz'.replaced
    /\ fuzziness = DrawRange => lastFuzz'.replaced
C7_Decisions ==
    /\ pc = "fuzzValidatorIndex" =>
          /\ FuzzStep("ValidatorIndex")
          /\ IF lastFuzz'.replaced
             THEN operation'[1].ValidatorIndex \in 0..(FuzzValueRange - 1)
             ELSE operation'[1].ValidatorIndex = operation[1].ValidatorIndex
          /\ operation'[1].Epoch = operation[1].Epoch
          /\ root' = root /\ signature' = signature
    /\ pc = "fuzzEpoch" =>
          /\ FuzzStep("Epoch")
          /\ IF lastFuzz'.replaced
             THEN operation'[1].Epoch \in 0..(FuzzValueRange - 1)
             ELSE operation'[1].Epoch = operation[1].Epoch
          /\ operation'[1].ValidatorIndex = operation[1].ValidatorIndex
          /\ root' = root /\ signature' = signature
    /\ pc = "fuzzRoot" =>
          /\ cp = "b"
          /\ FuzzStep("root")
          /\ IF lastFuzz'.replaced THEN root' \in RandomRoots ELSE root' = root
          /\ operation' = operation /\ signature' = signature
    /\ pc = "fuzzSignature" =>
          /\ cp = "c"
          /\ FuzzStep("signature")
          /\ IF lastFuzz'.replaced
             THEN signature' \in RandomSignatures
             ELSE signature' = signature
          /\ operation' = operation /\ root' = root
    /\ pc \notin {"fuzzValidatorIndex", "fuzzEpoch", "fuzzRoot", "fuzzSignature"}
          => lastFuzz' = lastFuzz
C7_ReplacedIffDrawBelowIntensity == [][C7_Decisions]_vars
\* At intensity 50 the draw 49 replaced the signature.
C7_Witness ==
    /\ fuzziness = DrawRange \div 2
    /\ lastFuzz.field = "signature"
    /\ lastFuzz.draw = fuzziness - 1
    /\ signature \in RandomSignatures

\* C8: createSignedOperation builds the message, runs checkpoint (a) on the
\* message, computes the root of the message as (a) left it, runs checkpoint
\* (b) on message and root, has the account sign the root as (b) left it,
\* runs checkpoint (c) on message and signature, and returns the message as
\* (c) left it with that signature.  Root and signature change nowhere else.
C8_Steps ==
    /\ pc = "createSignedOperation" =>
          /\ operation' = <<VoluntaryExit(c.chainInfo.Epoch, validatorInfo[1].Index)>>
          /\ cp' = "a" /\ pc' = "fuzzValidatorIndex"
    /\ pc = "fuzzValidatorIndex" => pc' = "fuzzEpoch" /\ cp' = cp
    /\ pc = "fuzzEpoch" =>
          /\ cp' = cp
          /\ cp = "a" => pc' = "hashTreeRoot"
          /\ cp = "b" => pc' = "fuzzRoot"
          /\ cp = "c" => pc' = "fuzzSignature"
    /\ pc = "hashTreeRoot" =>
          /\ cp = "a" /\ lastFuzz.cp = "a" /\ lastFuzz.field = "Epoch"
          /\ root' = HashTreeRoot(operation[1])
          /\ operation' = operation
          /\ cp' = "b" /\ pc' = "fuzzValidatorIndex"
    /\ pc = "fuzzRoot" => cp = "b" /\ cp' = cp /\ pc' = "signRoot"
    /\ (pc = "signRoot" /\ pc' # "done") =>
          /\ cp = "b" /\ lastFuzz.cp = "b" /\ lastFuzz.field = "root"
          /\ signature' = BLSSign(account[1].sk, SigningRoot(root, c.domain))
          /\ operation' = operation /\ root' = root
          /\ cp' = "c" /\ pc' = "fuzzValidatorIndex"
    /\ pc = "fuzzSignature" => cp = "c" /\ pc' = "returnOperation"
    /\ pc = "returnOperation" =>
          /\ lastFuzz.cp = "c" /\ lastFuzz.field = "signature"
          /\ c'.signedOperation = <<SignedVoluntaryExit(operation, signature)>>
    /\ root' # root => pc \in {"hashTreeRoot", "fuzzRoot"}
    /\ signature' # signature => pc \in {"signRoot", "fuzzSignature"}
    /\ operation' # operation => pc \in {"createSignedOperation", "fuzzValidatorIndex", "fuzzEpoch"}
C8_CheckpointOrder == [][C8_Steps]_vars
\* A returned operation whose signature is over the root of the message as
\* mutated at (a), and whose message was mutated again after the root was
\* taken.
C8_Witness ==
    /\ Len(c.signedOperation) = 1
    /\ branch \in Builders
    /\ c.signedOperation[1].Signature.form = "point"
    /\ c.signedOperation[1].Signature.sk > 0
    /\ c.signedOperation[1].Signature.sr = SigningRoot(root, c.domain)
    /\ root # JunkRoot
    /\ root # HashTreeRoot(VoluntaryExit(c.chainInfo.Epoch, validatorInfo[1].Index))
    /\ root # HashTreeRoot(c.signedOperation[1].Message[1])

\* Whether the mnemonic derives, at this index, the public key of the
\* validator looked for.
KeyMatchesAt(index) ==
    PubOf(PrivateKeyFromSeedAndPath(SeedFromMnemonic(c.mnemonic)[1], ValidatorKeyPath(index)))
        = validatorInfo[1].Pubkey
Scanning == branch = "generateOperationFromMnemonicAndValidator"
ScanFound == Scanning /\ Len(account) = 1
ScanExhausted == Scanning /\ Len(account) = 0 /\ pc \in {"validateOperation", "output"}

\* C9: the key scan probes the indices 0, 1, 2, ... in ascending order and
\* stops at the first whose derived public key is the validator's, building
\* the operation with that index's account; a key at an index up to 1023 is
\* found, a key first matching at 1024 or beyond is not.
C9_ScanFindsFirstMatchBelowBound ==
    /\ (Scanning /\ pc = "scanKeys") => derivations = i /\ i <= maxDistance
    /\ ScanFound =>
          /\ i < maxDistance
          /\ derivations = i + 1
          /\ KeyMatchesAt(i)
          /\ \A j \in 0..(i - 1) : ~KeyMatchesAt(j)
          /\ account = ParseAccountFromMnemonic(c.mnemonic, ValidatorKeyPath(i))
    /\ ScanExhausted =>
          /\ i = maxDistance
          /\ \A j \in 0..(maxDistance - 1) : ~KeyMatchesAt(j)
\* The key at index 1023 was found.
C9_Witness ==
    /\ ScanFound
    /\ i = maxDistance - 1
    /\ Complete(c.signedOperation)

\* C10: when no index in 0..1023 derives the validator's public key, the
\* scan ends after exactly 1024 derivations, without error and with the
\* run's signed operation unset.
C10_Leaving ==
    (pc = "scanKeys" /\ pc' \notin {"scanKeys", "createSignedOperation"}) =>
        /\ derivations' = maxDistance
        /\ \A j \in 0..(maxDistance - 1) : ~KeyMatchesAt(j)
        /\ pc' = "validateOperation"
        /\ err' = <<>>
        /\ c'.signedOperation = <<>>
C10_Scanning ==
    pc = "scanKeys" =>
        /\ i <= maxDistance
        /\ derivations = i
        /\ (i < maxDistance /\ ~KeyMatchesAt(i)) =>
              pc' = "scanKeys" /\ i' = i + 1 /\ derivations' = derivations + 1
C10_ExhaustedScanIsSilent == [][C10_Leaving /\ C10_Scanning]_vars
\* The scan ran out with the validator's key at index 1024.
C10_Witness ==
    /\ ScanExhausted
    /\ derivations = maxDistance
    /\ KeyMatchesAt(maxDistance)

\* The statements of process a run is at or has passed: its stage.
StageOf(at) ==
    IF at = "setup" THEN 1
    ELSE IF at = "obtainChainInfo" THEN 2
    ELSE IF at \in {"writeChainInfoToFile", "generateDomain"} THEN 3
    ELSE IF at = "validateOperation" THEN 5
    ELSE IF at = "output" THEN 6
    ELSE IF at = "done" THEN 7
    ELSE 4

\* C11: with offline preparation requested the run goes from obtaining the
\* chain info straight to writing it to file and ends there: the domain is
\* never generated, no operation is obtained, verified or validated, nothing
\* is seeded or broadcast, whatever inputs and other flags were supplied.
C11_PrepareOfflineEndsAfterWriting ==
    c.prepareOffline =>
        /\ pc \in {"setup", "obtainChainInfo", "writeChainInfoToFile", "done"}
        /\ pc = "writeChainInfoToFile" => c.chainInfo \in ChainInfos /\ err = <<>>
        /\ written => pc = "done" /\ err = <<>> /\ c.chainInfo \in ChainInfos
        /\ c.domain = ZeroDomain
        /\ branch = ""
        /\ c.signedOperation = <<>>
        /\ verifyLog = <<>>
        /\ seedings = 0 /\ derivations = 0
        /\ submitted = <<>>
\* Offline preparation with every key-material input supplied wrote the file.
C11_Witness ==
    /\ c.prepareOffline /\ written /\ pc = "done"
    /\ c.mnemonic # <<>> /\ c.path # <<>> /\ c.validator # <<>> /\ c.privateKey # <<>>
    /\ c.signedOperationInput # <<>>
    /\ ~c.json

\* C12: a run goes through setup, obtain chain info, generate domain, obtain
\* operation, validate, and JSON output or broadcast, in this order; each
\* stage is entered from the one before it and only when that one returned
\* no error, with what the earlier stages produce in place; an error ends
\* the run at once with that error, and a run ends without error only after
\* the last stage (or after writing the offline-preparation file).
C12_StageStep ==
    /\ pc # "done"
    /\ err = <<>>
    /\ \/ StageOf(pc') = StageOf(pc) /\ StageOf(pc) = 4 /\ err' = <<>>
       \/ StageOf(pc') = StageOf(pc) + 1 /\ err' = <<>>
       \/ pc' = "done"
    /\ pc = "writeChainInfoToFile" => pc' = "done"
    /\ err' # <<>> => pc' = "done"
    /\ (pc' = "done" /\ err' = <<>>) => pc \in {"writeChainInfoToFile", "output"}
    /\ (pc' # "done" /\ StageOf(pc') >= 2) => (c'.offline \/ c'.consensusClient)
    /\ (pc' # "done" /\ StageOf(pc') >= 3) => c'.chainInfo \in ChainInfos
    /\ (pc' # "done" /\ StageOf(pc') >= 4) =>
          /\ ~c'.prepareOffline
          /\ generateDomain(c').err = <<>>
          /\ c'.domain = generateDomain(c').value
    /\ (pc' # "done" /\ StageOf(pc') >= 5) => branch' \notin {"", "unsupported combination of inputs"}
    /\ StageOf(pc) < 3 => c'.domain = ZeroDomain
    /\ StageOf(pc) < 4 => branch = "" /\ c.signedOperation = <<>> /\ seedings = 0
    /\ StageOf(pc) < 6 => submitted' = <<>>
C12_StagesInOrder == [][C12_StageStep]_vars
\* A run went through every stage and broadcast the operation it built.
C12_Witness ==
    /\ pc = "done" /\ err = <<>>
    /\ branch \in Builders
    /\ c.domain # ZeroDomain
    /\ Complete(c.signedOperation)
    /\ submitted = <<c.signedOperation>>

\* C13: SubmitVoluntaryExit is invoked exactly in the step that leaves the
\* output stage of a run with neither JSON output nor offline mode set, a
\* stage reached only with every earlier stage succeeded; it is invoked once,
\* with the run's operation.  With JSON output (or offline mode) set the run
\* ends there without error and without any submission.
C13_SubmitStep ==
    /\ submitted' # submitted =>
          /\ pc = "output" /\ ~c.json /\ ~c.offline
          /\ submitted = <<>>
    /\ pc = "output" =>
          /\ err = <<>> /\ submitted = <<>>
          /\ c.offline \/ c.consensusClient
          /\ c.chainInfo \in ChainInfos
          /\ generateDomain(c).err = <<>> /\ c.domain = generateDomain(c).value
          /\ branch \in Builders \cup {"obtainOperationFromFileOrInput"}
          /\ pc' = "done"
          /\ IF c.json \/ c.offline
             THEN submitted' = <<>> /\ err' = <<>>
             ELSE submitted' = <<c.signedOperation>>
    /\ (pc = "validateOperation" /\ c.json) => pc' = "output"
C13_SubmittedIffNeitherJSONNorOffline == [][C13_SubmitStep]_vars
\* An online run with JSON output ended after validation with its operation
\* and submitted nothing.
C13_Witness ==
    /\ c.json /\ ~c.offline /\ c.consensusClient
    /\ pc = "done" /\ err = <<>>
    /\ Complete(c.signedOperation)
    /\ submitted = <<>>

\* The run has generated its domain.
DomainGenerated == StageOf(pc) \in 4..6 \/ branch # ""
\* The values a run is to use: what was supplied, else what the chain holds.
VersionToUse ==
    IF c.forkVersion # EmptyHex THEN c.forkVersion.body ELSE c.chainInfo.CurrentForkVersion
RootToUse ==
    IF c.genesisValidatorsRoot # EmptyHex
    THEN c.genesisValidatorsRoot.body
    ELSE c.chainInfo.GenesisValidatorsRoot

\* C14: once generateDomain has succeeded the domain is 32 bytes, its first
\* 4 bytes the voluntary-exit domain type of the chain info and its other 28
\* bytes the first 28 bytes of the hash tree root of the fork data (fork
\* version, genesis validators root); it is a function of these three values
\* alone and does not change later in the run.
C14_DomainLayout ==
    DomainGenerated =>
        LET forkDataRoot == ForkDataRoot(obtainForkVersion(c).value,
                                         obtainGenesisValidatorsRoot(c).value)
        IN /\ Len(c.domain) = RootLength
           /\ \A k \in 1..DomainTypeLength :
                 c.domain[k] = c.chainInfo.VoluntaryExitDomainType[k]
           /\ \A k \in 1..(RootLength - DomainTypeLength) :
                 c.domain[DomainTypeLength + k] = forkDataRoot[k]
           /\ Len(forkDataRoot) = RootLength
\* A domain generated from a supplied fork version, with the run ended.
C14_Witness ==
    /\ DomainGenerated
    /\ c.forkVersion # EmptyHex
    /\ pc = "done" /\ err = <<>>
    /\ \E k \in 5..RootLength : c.domain[k] # ChainDomain[k]

\* A supplied value decodes to the length its field has.
ValidHex(h, length) == HexDecodeOK(h.body) /\ Len(h.body) = length
\* C15: the fork version and the genesis validators root that go into the
\* domain are, each on its own, the supplied value when one is supplied
\* (and valid, or generateDomain fails), and the chain info's value only
\* when none is supplied.
C15_SuppliedValueTakesPrecedence ==
    DomainGenerated =>
        /\ c.forkVersion # EmptyHex => ValidHex(c.forkVersion, ForkVersionLength)
        /\ c.genesisValidatorsRoot # EmptyHex => ValidHex(c.genesisValidatorsRoot, RootLength)
        /\ c.domain = ComputeDomain(c.chainInfo.VoluntaryExitDomainType, VersionToUse, RootToUse)
\* A domain from a supplied root and the chain's fork version.
C15_Witness ==
    /\ pc = "obtainOperation"
    /\ c.forkVersion = EmptyHex
    /\ c.genesisValidatorsRoot # EmptyHex
    /\ c.domain # ChainDomain
    /\ c.domain = ComputeDomain(ChainDomainType, ChainForkVersion, c.genesisValidatorsRoot.body)

\* A supplied fork version or genesis validators root is not usable.
InvalidSupplied ==
    \/ c.forkVersion # EmptyHex /\ ~ValidHex(c.forkVersion, ForkVersionLength)
    \/ c.genesisValidatorsRoot # EmptyHex /\ ~ValidHex(c.genesisValidatorsRoot, RootLength)
GenerateDomainErrors ==
    {<<"invalid genesis validators root supplied">>,
     <<"invalid length for genesis validators root">>,
     <<"invalid fork version supplied">>,
     <<"invalid length for fork version">>}
\* C16: with a supplied fork version or genesis validators root that is not
\* hex or not of the field's length, the run never gets past generateDomain:
\* it ends there with the error of the offending value, the domain is as it
\* was, no operation is obtained and nothing is broadcast; the chain info's
\* value is not used in its place.
C16_InvalidSuppliedValueFails ==
    InvalidSupplied =>
        /\ StageOf(pc) \notin 4..6
        /\ c.domain = ZeroDomain
        /\ branch = "" /\ c.signedOperation = <<>> /\ verifyLog = <<>> /\ seedings = 0
        /\ submitted = <<>>
        /\ (pc = "done" /\ c.chainInfo \in ChainInfos /\ ~c.prepareOffline) =>
              /\ err \in GenerateDomainErrors
              /\ err = generateDomain(c).err
\* A run with key material ended on a fork version one byte short.
C16_Witness ==
    /\ pc = "done"
    /\ err = <<"invalid length for fork version">>
    /\ c.chainInfo \in ChainInfos
    /\ c.privateKey # <<>>
    /\ ~c.offline /\ ~c.json

\* What verifySignedOperation is to check of the operation op points to.
VerifierConditions(cmd, op) ==
    /\ Len(op) = 1 /\ Len(op[1].Message) = 1
    /\ BLSSignatureFromBytesOK(op[1].Signature)
    /\ \E v \in cmd.chainInfo.Validators :
          /\ v.Index = op[1].Message[1].ValidatorIndex
          /\ BLSVerify(op[1].Signature,
                       SigningRoot(HashTreeRoot(op[1].Message[1]), cmd.domain), v.Pubkey)
VerifierErrors ==
    {<<"invalid signature">>, <<"unknown validator">>, <<"signature does not verify">>}
\* C17: every call of verifySignedOperation returns nil exactly when the
\* signature decodes, a validator is registered at the message's index and
\* the signature verifies under that validator's key against the signing
\* root of the message's root and the run's domain; otherwise it returns
\* an error; the operation and the domain stay as they were.
C17_VerifierAcceptsIffAllChecksPass ==
    \A k \in 1..Len(verifyLog) :
        /\ verifyLog[k].err = <<>> <=> VerifierConditions(c, verifyLog[k].op)
        /\ verifyLog[k].err # <<>> => verifyLog[k].err \in VerifierErrors
        /\ c.signedOperation = verifyLog[k].op
        /\ c.domain = generateDomain(c).value

\* The run ended on a document that did not parse; on text that is not JSON.
ParseFailure(e) ==
    \E k \in 1..Len(e) : e[k] \in {"failed to parse exit operation file",
                                    "failed to parse exit operation input"}
SyntaxFailure(e) == ParseFailure(e) /\ e[Len(e)] = SyntaxError[1]
\* The document the run was given inline or read from the file it named.
InputDoc(cmd) == cmd.signedOperationInput[1].doc
\* C18: a document that is not JSON, read from exit-operation.json or given
\* as input, ends the run with a parse error naming its origin; the run's
\* operation is still unset, not a partly filled one, the verifier was not
\* called, and there is no validation, output or broadcast.
C18_LoadStep ==
    pc \in {"obtainOperationFromFile", "obtainOperationFromInput"} =>
        /\ (/\ c'.signedOperationInput # <<>>
            /\ c'.signedOperationInput[1].inline
            /\ ~InputDoc(c').wellFormed) => SyntaxFailure(err')
        /\ ParseFailure(err') =>
              /\ pc' = "done"
              /\ verifyLog' = <<>>
              /\ submitted' = <<>>
              /\ (pc = "obtainOperationFromFile")
                    = (\E k \in 1..Len(err') : err'[k] = "failed to parse exit operation file")
        /\ SyntaxFailure(err') => c'.signedOperation = <<>>
C18_MalformedJSONYieldsNoOperation == [][C18_LoadStep]_vars
\* A file named as input held a document cut off after its message.
C18_Witness ==
    /\ pc = "done"
    /\ SyntaxFailure(err)
    /\ c.signedOperationInput = InlineInput(TruncatedDoc)
    /\ c.signedOperation = <<>>

FuzzPoints == {"fuzzValidatorIndex", "fuzzEpoch", "fuzzRoot", "fuzzSignature"}
\* C19: the random source is seeded once in a run, by createSignedOperation
\* before it makes the first mutation draw, and never again: every draw is
\* made with exactly one seeding behind it.  (A run that builds no operation
\* makes no draw and does not seed.)
C19_SeedStep ==
    /\ seedings' # seedings =>
          /\ pc = "createSignedOperation"
          /\ seedings = 0 /\ seedings' = 1
          /\ lastFuzz = NoFuzz /\ lastFuzz' = NoFuzz
    /\ pc = "createSignedOperation" => seedings' = 1
    /\ pc \in FuzzPoints => seedings = 1 /\ seedings' = 1 /\ lastFuzz' # NoFuzz
    /\ lastFuzz' # lastFuzz => pc \in FuzzPoints
    /\ seedings = 0 => lastFuzz = NoFuzz
    /\ (pc' = "done" /\ branch' \in Builders /\ err' = <<>> /\ c'.signedOperation # <<>>)
          => seedings' = 1
C19_SeededOnceBeforeFirstDraw == [][C19_SeedStep]_vars
\* A run made all its draws, the last one replacing the signature, and ended.
C19_Witness ==
    /\ pc = "done"
    /\ seedings = 1
    /\ lastFuzz.cp = "c" /\ lastFuzz.field = "signature" /\ lastFuzz.replaced
    /\ Len(submitted) = 1

\* C20: with a mnemonic that yields a seed and a path that does not match
\* the validator-path pattern, generateOperationFromMnemonicAndPath returns
\* the path-format error at once: no key is derived from the path, the
\* private-key field and the rest of the command are as they were, no
\* operation is created, nothing is seeded or drawn.
C20_PathStep ==
    (/\ pc = "generateOperationFromMnemonicAndPath"
     /\ Len(SeedFromMnemonic(c.mnemonic)) = 1
     /\ \/ Len(c.path) # 6
        \/ c.path[1].text # "m" \/ c.path[2].text # "12381" \/ c.path[3].text # "3600"
        \/ c.path[4].num < 0
        \/ c.path[5].text # "0" \/ c.path[6].text # "0") =>
        /\ pc' = "done"
        /\ err' = <<"path does not match EIP-2334 format for a validator">>
        /\ c'.privateKey = c.privateKey
        /\ c' = c
        /\ c'.signedOperation = <<>>
        /\ UNCHANGED <<locals, observed>>
        /\ seedings = 0 /\ lastFuzz = NoFuzz /\ derivations = 0
C20_BadPathFailsBeforeDerivation == [][C20_PathStep]_vars
\* A run with a private key supplied as well ended on a path whose index is
\* not a number.
C20_Witness ==
    /\ pc = "done"
    /\ err = <<"path does not match EIP-2334 format for a validator">>
    /\ c.path = NonDigitPath
    /\ c.privateKey = DefaultPrivateKey
    /\ c.signedOperation = <<>>

\* Which of the key inputs are supplied.
HasMnemonic == c.mnemonic # <<>>
HasPath == c.path # <<>>
HasValidator == c.validator # <<>>
HasPrivateKey == c.privateKey # <<>>
MnemonicError == "mnemonic must be supplied with either a path or validator"

\* C21: of several sources supplied together obtainOperation takes one, by
\* fixed precedence, and goes on without error, the others being ignored:
\* mnemonic with path before everything, then mnemonic with validator, then
\* the private key, then the validator alone.  It returns 'mnemonic must be
\* supplied with either a path or validator' exactly for a mnemonic supplied
\* with a private key and with neither path nor validator.
C21_ObtainStep ==
    pc = "obtainOperation" =>
        /\ (HasMnemonic /\ HasPath) =>
              branch' = "generateOperationFromMnemonicAndPath"
        /\ (HasMnemonic /\ ~HasPath /\ HasValidator) =>
              branch' = "generateOperationFromMnemonicAndValidator"
        /\ (~HasMnemonic /\ HasPrivateKey) =>
              branch' = "generateOperationFromPrivateKey"
        /\ (~HasMnemonic /\ ~HasPrivateKey /\ HasValidator) =>
              branch' = "generateOperationFromValidator"
        /\ branch' \in Builders => pc' = branch' /\ err' = <<>> /\ c' = c
        /\ (branch' = MnemonicError)
              = (HasMnemonic /\ HasPrivateKey /\ ~HasPath /\ ~HasValidator)
        /\ (err' = <<MnemonicError>>) = (branch' = MnemonicError)
        /\ err' # <<>> => pc' = "done" /\ branch' = MnemonicError
C21_FixedPrecedence == [][C21_ObtainStep]_vars
\* Mnemonic, path, validator and a signed operation were all supplied; the
\* operation was built from the mnemonic and the path and broadcast.
C21_Witness ==
    /\ HasMnemonic /\ HasPath /\ HasValidator /\ c.signedOperationInput # <<>>
    /\ branch = "generateOperationFromMnemonicAndPath"
    /\ pc = "done" /\ err = <<>>
    /\ Complete(c.signedOperation)
    /\ Len(submitted) = 1
    /\ verifyLog = <<>>

\* C22: obtainOperation turns to the file or the supplied input exactly when
\* private key and validator are both empty and mnemonic or path is empty,
\* so a mnemonic alone and a path alone count as no key input; and no
\* combination of inputs makes it return 'unsupported combination of
\* inputs'.
C22_ObtainStep ==
    /\ pc = "obtainOperation" =>
          /\ (branch' = "obtainOperationFromFileOrInput")
                = (~HasPrivateKey /\ ~HasValidator /\ (~HasMnemonic \/ ~HasPath))
          /\ (pc' \in {"obtainOperationFromFile", "obtainOperationFromInput"})
                = (branch' = "obtainOperationFromFileOrInput")
          /\ (HasMnemonic /\ ~HasPath /\ ~HasPrivateKey /\ ~HasValidator) =>
                branch' = "obtainOperationFromFileOrInput" /\ err' = <<>>
          /\ (HasPath /\ ~HasMnemonic /\ ~HasPrivateKey /\ ~HasValidator) =>
                branch' = "obtainOperationFromFileOrInput" /\ err' = <<>>
    /\ branch' # "unsupported combination of inputs"
    /\ \A k \in 1..Len(err') : err'[k] # "unsupported combination of inputs"
C22_FileOrInputExactlyWithoutKeyInput == [][C22_ObtainStep]_vars
\* A mnemonic was supplied alone; the operation came from exit-operation.json
\* and was broadcast.
C22_Witness ==
    /\ HasMnemonic /\ ~HasPath /\ ~HasPrivateKey /\ ~HasValidator
    /\ c.signedOperationInput = <<>>
    /\ branch = "obtainOperationFromFileOrInput"
    /\ Len(verifyLog) = 1
    /\ pc = "done" /\ err = <<>>
    /\ submitted = <<c.signedOperation>>

====
